---- MODULE Spec2Model ----
(***************************************************************************)
(* OpenBar (package openbar): Run, the scheduler (bootstrap, update, do,   *)
(* wait) and the stream writer, as one state machine.  Source of every     *)
(* definition: src/README.md (the package source follows the usage notes). *)
(*                                                                         *)
(* Goroutines: Run (header, bootstrap, spawn loop, consume loop), the      *)
(* closer started by bootstrap, one update worker per cell.  Environment:  *)
(* context cancellation, the runtime timers (t1, t2) and signal delivery.  *)
(***************************************************************************)
EXTENDS Integers, Sequences, FiniteSets, TLC

\* ------------------------------------------------------------------ bounds
MaxCells == 2      \* configurations have 0..MaxCells cells
MaxEvents == 1     \* ticker ticks and signals delivered over a run, all workers together
MaxIndex == 130    \* indices tried by the signal-id specification SigSpec

\* --------------------------------------------------------------- constants
broadcast == 10    \* syscall.SIGUSR1 (linux)
sigRtMin == 34     \* 0x22
sigRtMax == 64     \* 0x40
placeholder == "..."
defaultHeader == [version |-> 1, click_events |-> FALSE]

None == "none"
NoSignal == 0

\* Texts a working module may return; a failing one returns "" and an error.
ModuleTexts == {"hello"}

VARIABLES
  cells,      \* cfg.cells: index -> module behaviour ("ok" | "fail")
  cancelled,  \* ctx.Done() is closed
  runPc,      \* Run: "header","bootstrap","spawn","recv","done"
  runRet,     \* Run's return value: None (running), "nil", "err"
  spawned,    \* number of workers Run has started
  blocks,     \* b []Block: index -> full_text (<<>> before make)
  out,        \* cfg.out: hdrs = Headers written, hdrErr = the Header write failed,
              \*   lens = lengths of the body lines written, early = a body line
              \*   came before the Header, late = a Header came after a body line
  line,       \* the last body line handed to cfg.out: v, and st = None (no line
              \*   yet), "ok" or "err" (what Write returned)
  logged,     \* log sink: [mod |-> module errors logged?, body |-> write errors logged?]
  wg,         \* scheduler.wg counter
  ch,         \* scheduler.out buffer (FIFO)
  chState,    \* None (not made), "open", "closed"
  closerPc,   \* the goroutine of bootstrap: None, "wait", "done"
  pc,         \* worker position: None,"entry","select","bwait","do","done"
  t1,         \* jitter timer: "off","armed","fired","spent"
  t2,         \* ticker: "off","init" (period j+1),"real" (period d)
  t2c,        \* a tick is waiting in t2.C
  sigc,       \* worker's signal channel (capacity 1): NoSignal or a signal
  ticks,      \* ticker deliveries so far
  nsig,       \* signal deliveries so far
  panicked,   \* None, or the runtime panic that ended the process
  sent,       \* history: Results sent per worker
  applied,    \* history: Results applied per index
  lastApplied,\* history: text of the last Result consumed per index
  chSeq,      \* history: for each Result in ch, its rank among its worker's sends
  bc,         \* history, per worker, of the last broadcast delivered while it
              \*   ran: "owed" (nothing sent since), "ph" (placeholders only
              \*   since), "real" (the first Result sent after it was a module
              \*   Result), "none" (no broadcast, or a placeholder and then a
              \*   module Result were sent since)
  sigIdx,     \* SigSpec: index under test
  sigGot      \* SigSpec: id registered for sigIdx (-1 before)

vars == <<cells, cancelled, runPc, runRet, spawned, blocks, out, line, logged,
          wg, ch, chState, closerPc, pc, t1, t2, t2c, sigc, ticks, nsig,
          panicked, sent, applied, lastApplied, chSeq, bc, sigIdx, sigGot>>

runVars == <<runPc, runRet, spawned, blocks, out, line, logged>>
schedVars == <<wg, ch, chState, closerPc>>
workerVars == <<pc, t1, t2, t2c, sigc>>
envVars == <<cancelled, ticks, nsig>>
histVars == <<sent, applied, lastApplied, chSeq, bc>>
sigVars == <<sigIdx, sigGot>>

n == Cardinality(DOMAIN cells)
Idx == DOMAIN cells

\* ---------------------------------------------------------- pure helpers

\* sigc, id := make(chan os.Signal, 1), sigRtMin+((i+1)%sigRtMax)
SigId(i) == sigRtMin + ((i + 1) % sigRtMax)

\* m.FullText(): the (out, err) pairs a module of the given behaviour returns.
FullText(m) ==
  IF m = "fail" THEN {[out |-> "", err |-> TRUE]}
  ELSE {[out |-> t, err |-> FALSE] : t \in ModuleTexts}

\* wg.Add(size)
WgInitExtra(size) == size + 1

WgInitShort(size) == IF size > 0 THEN size - 1 ELSE 0

WgInit(size) == size

\* make(chan result, size)
ChanCapShort(size) == size - 1

ChanCap(size) == size

\* b := make([]Block, n)
MakeBlocksShort(size) == [k \in 0 .. size - 2 |-> ""]

MakeBlocks(size) == [k \in 0 .. size - 1 |-> ""]

\* b[res.idx].FullText = res.out
ApplyResultAll(b, r) == [k \in DOMAIN b |-> r.out]

ApplyResultSkipErr(b, r) == IF r.err THEN b ELSE [b EXCEPT ![r.idx] = r.out]

ApplyResult(b, r) == [b EXCEPT ![r.idx] = r.out]

\* result{idx, placeholder, nil}
WaitResult(idx) == [idx |-> idx, out |-> placeholder, err |-> FALSE]

\* result{idx, out, err}
DoResult(idx, r) == [idx |-> idx, out |-> r.out, err |-> r.err]

\* write(w, v, glue...): the stream after one successful write of v, a value
\* of Go type ty ("Header" or "Blocks").
write(o, ty, v) ==
  IF ty = "Header"
  THEN [o EXCEPT !.hdrs = @ + 1, !.late = @ \/ o.lens # {}]
  ELSE [o EXCEPT !.early = @ \/ o.hdrs = 0,
                 !.lens = @ \cup {Cardinality(DOMAIN v)}]

\* debug(err)
debugDrop(l, kind, err) == l

debug(l, kind, err) == IF err THEN [l EXCEPT ![kind] = TRUE] ELSE l

\* ------------------------------------------------------------------ Init

Configs == UNION {[0 .. k - 1 -> {"ok", "fail"}] : k \in 0 .. MaxCells}

InitRest ==
  /\ cancelled = FALSE
  /\ runPc = "header"
  /\ runRet = None
  /\ spawned = 0
  /\ blocks = <<>>
  /\ out = [hdrs |-> 0, hdrErr |-> FALSE, early |-> FALSE, late |-> FALSE,
            lens |-> {}]
  /\ line = [v |-> <<>>, st |-> None]
  /\ logged = [mod |-> FALSE, body |-> FALSE]
  /\ wg = 0
  /\ ch = <<>>
  /\ chState = None
  /\ closerPc = None
  /\ pc = [i \in Idx |-> None]
  /\ t1 = [i \in Idx |-> "off"]
  /\ t2 = [i \in Idx |-> "off"]
  /\ t2c = [i \in Idx |-> FALSE]
  /\ sigc = [i \in Idx |-> NoSignal]
  /\ ticks = 0
  /\ nsig = 0
  /\ panicked = None
  /\ sent = [i \in Idx |-> 0]
  /\ applied = [i \in Idx |-> 0]
  /\ lastApplied = [i \in Idx |-> None]
  /\ chSeq = <<>>
  /\ bc = [i \in Idx |-> "none"]

Init ==
  /\ cells \in Configs
  /\ InitRest
  /\ sigIdx = 0
  /\ sigGot = -1

\* ------------------------------------------------------------------- Run

\* if err := write(cfg.out, defaultHeader, 0x0A, 0x5B); err != nil { return err }
\* Where Run goes after the Header write: on, or out with the error.
HeaderNextIgnore(ok) == [pc |-> "bootstrap", ret |-> None]

HeaderNext(ok) ==
  IF ok THEN [pc |-> "bootstrap", ret |-> None] ELSE [pc |-> "done", ret |-> "err"]

RunHeader ==
  /\ runPc = "header"
  /\ \E ok \in BOOLEAN :
       /\ out' = IF ok THEN write(out, "Header", defaultHeader)
                       ELSE [out EXCEPT !.hdrErr = TRUE]
       /\ runPc' = HeaderNext(ok).pc
       /\ runRet' = HeaderNext(ok).ret
  /\ UNCHANGED <<cells, spawned, blocks, line, logged>>
  /\ UNCHANGED <<schedVars, workerVars, envVars, histVars, sigVars, panicked>>

\* n := len(cfg.cells); scheduler := bootstrap(n)
bootstrap ==
  /\ runPc = "bootstrap"
  /\ wg' = WgInit(n)
  /\ ch' = <<>>
  /\ chState' = "open"
  /\ closerPc' = "wait"
  /\ runPc' = "spawn"
  /\ UNCHANGED <<cells, runRet, spawned, blocks, out, line, logged>>
  /\ UNCHANGED <<workerVars, envVars, histVars, sigVars, panicked>>

\* for i, c := range cfg.cells { go scheduler.update(ctx, i, ...) }
RunSpawn ==
  /\ runPc = "spawn"
  /\ spawned < n
  /\ pc' = [pc EXCEPT ![spawned] = "entry"]
  /\ spawned' = spawned + 1
  /\ UNCHANGED <<cells, runPc, runRet, blocks, out, line, logged>>
  /\ UNCHANGED <<t1, t2, t2c, sigc>>
  /\ UNCHANGED <<schedVars, envVars, histVars, sigVars, panicked>>

\* b := make([]Block, n)
RunMakeBlocks ==
  /\ runPc = "spawn"
  /\ spawned = n
  /\ blocks' = MakeBlocks(n)
  /\ runPc' = "recv"
  /\ UNCHANGED <<cells, runRet, spawned, out, line, logged>>
  /\ UNCHANGED <<schedVars, workerVars, envVars, histVars, sigVars, panicked>>

\* write(cfg.out, b, 0x2C)
WriteLineWithHeader(o, b) == write(write(o, "Header", defaultHeader), "Blocks", b)

WriteLine(o, b) == write(o, "Blocks", b)

\* Where the consume loop goes after one Result r and its body write: always
\* to the next Result (debug only logs).
LoopNextWriteErr(r, ok) ==
  IF ok THEN [pc |-> "recv", ret |-> None] ELSE [pc |-> "done", ret |-> "err"]

LoopNextModErr(r, ok) ==
  IF r.err THEN [pc |-> "done", ret |-> "err"] ELSE [pc |-> "recv", ret |-> None]

LoopNext(r, ok) == [pc |-> "recv", ret |-> None]

\* for res := range scheduler.out { b[res.idx].FullText = res.out;
\*   debug(res.err); debug(write(cfg.out, b, 0x2C)) }
RunLoop ==
  /\ runPc = "recv"
  /\ ch # <<>>
  /\ LET r == Head(ch) IN
       /\ ch' = Tail(ch)
       /\ chSeq' = Tail(chSeq)
       /\ applied' = [applied EXCEPT ![r.idx] = @ + 1]
       /\ lastApplied' = [lastApplied EXCEPT ![r.idx] = r.out]
       /\ IF r.idx \in DOMAIN blocks
          THEN /\ blocks' = ApplyResult(blocks, r)
               /\ panicked' = panicked
               /\ \E ok \in BOOLEAN :
                    /\ out' = IF ok THEN WriteLine(out, blocks') ELSE out
                    /\ line' = [v |-> blocks', st |-> IF ok THEN "ok" ELSE "err"]
                    /\ logged' = debug(debug(logged, "mod", r.err), "body", ~ok)
                    /\ runPc' = LoopNext(r, ok).pc
                    /\ runRet' = LoopNext(r, ok).ret
          ELSE /\ panicked' = "index out of range"
               /\ UNCHANGED <<blocks, out, line, logged, runPc, runRet>>
  /\ UNCHANGED <<cells, spawned, wg, chState, closerPc>>
  /\ UNCHANGED <<workerVars, envVars, sent, bc, sigVars>>

\* the range loop ends when the channel is closed and drained
RangeEndsOnClose == chState = "closed"

RangeEnds == chState = "closed" /\ ch = <<>>

\* return nil
RunReturn ==
  /\ runPc = "recv"
  /\ RangeEnds
  /\ runRet' = "nil"
  /\ runPc' = "done"
  /\ UNCHANGED <<cells, spawned, blocks, out, line, logged>>
  /\ UNCHANGED <<schedVars, workerVars, envVars, histVars, sigVars, panicked>>

\* go func() { defer close(out); wg.Wait() }()
Closer ==
  /\ closerPc = "wait"
  /\ wg = 0
  /\ chState' = "closed"
  /\ panicked' = IF chState = "closed" THEN "close of closed channel" ELSE panicked
  /\ closerPc' = "done"
  /\ UNCHANGED <<wg, ch>>
  /\ UNCHANGED <<cells, runVars, workerVars, envVars, histVars, sigVars>>

\* ------------------------------------------------------------ the workers

\* s.out <- r : blocks while the buffer is full, panics on a closed channel.
CanSend == chState = "closed" \/ Len(ch) < ChanCap(n)

\* the buffer of a channel after a send: the new element is the last out
ChanSendLIFO(c, r) == <<r>> \o c

ChanSend(c, r) == Append(c, r)

\* What a worker has sent since the last broadcast, after one more send of the
\* given kind ("ph": by wait, "real": by do).
NoteSend(b, i, kind) ==
  IF b[i] = "owed" THEN [b EXCEPT ![i] = kind]
  ELSE IF b[i] = "ph" /\ kind = "real" THEN [b EXCEPT ![i] = "none"]
  ELSE b

Send(i, r, kind) ==
  /\ CanSend
  /\ IF chState = "closed"
     THEN /\ panicked' = "send on closed channel"
          /\ UNCHANGED <<ch, sent, chSeq, bc>>
     ELSE /\ ch' = ChanSend(ch, r)
          /\ chSeq' = ChanSend(chSeq, sent[i] + 1)
          /\ sent' = [sent EXCEPT ![i] = @ + 1]
          /\ bc' = NoteSend(bc, i, kind)
          /\ panicked' = panicked

\* update: s.wait(i); t1 := time.NewTimer(j); t2 := time.NewTicker(j + 1);
\* signal.Notify(sigc, broadcast, syscall.Signal(id))
UpdateEntryCheckCancel(i) ==
  /\ pc[i] = "entry"
  /\ IF cancelled
     THEN /\ pc' = [pc EXCEPT ![i] = "done"]
          /\ wg' = wg - 1
          /\ UNCHANGED <<t1, t2, ch, sent, chSeq, bc, panicked>>
     ELSE /\ Send(i, WaitResult(i), "ph")
          /\ t1' = [t1 EXCEPT ![i] = "armed"]
          /\ t2' = [t2 EXCEPT ![i] = "init"]
          /\ pc' = [pc EXCEPT ![i] = "select"]
          /\ wg' = wg
  /\ UNCHANGED <<t2c, sigc>>
  /\ UNCHANGED <<cells, runVars, chState, closerPc, envVars>>
  /\ UNCHANGED <<applied, lastApplied, sigVars>>

UpdateEntry(i) ==
  /\ pc[i] = "entry"
  /\ Send(i, WaitResult(i), "ph")
  /\ t1' = [t1 EXCEPT ![i] = "armed"]
  /\ t2' = [t2 EXCEPT ![i] = "init"]
  /\ pc' = [pc EXCEPT ![i] = "select"]
  /\ UNCHANGED <<t2c, sigc>>
  /\ UNCHANGED <<cells, runVars, wg, chState, closerPc, envVars>>
  /\ UNCHANGED <<applied, lastApplied, sigVars>>

\* case <-ctx.Done(): return, with the deferred signal.Stop, close(sigc),
\* t2.Stop, t1.Stop and s.wg.Done
SelectDoneNoWgDone(i) ==
  /\ pc[i] = "select"
  /\ cancelled
  /\ pc' = [pc EXCEPT ![i] = "done"]
  /\ t1' = [t1 EXCEPT ![i] = "off"]
  /\ t2' = [t2 EXCEPT ![i] = "off"]
  /\ t2c' = [t2c EXCEPT ![i] = FALSE]
  /\ sigc' = [sigc EXCEPT ![i] = NoSignal]
  /\ UNCHANGED <<wg, ch, chState, closerPc>>
  /\ UNCHANGED <<cells, runVars, envVars, histVars, sigVars, panicked>>

SelectDoneBreak(i) ==
  /\ pc[i] = "select"
  /\ cancelled
  /\ pc' = [pc EXCEPT ![i] = "do"]
  /\ UNCHANGED <<t1, t2, t2c, sigc>>
  /\ UNCHANGED <<cells, runVars, schedVars, envVars, histVars, sigVars, panicked>>

SelectDone(i) ==
  /\ pc[i] = "select"
  /\ cancelled
  /\ pc' = [pc EXCEPT ![i] = "done"]
  /\ t1' = [t1 EXCEPT ![i] = "off"]
  /\ t2' = [t2 EXCEPT ![i] = "off"]
  /\ t2c' = [t2c EXCEPT ![i] = FALSE]
  /\ sigc' = [sigc EXCEPT ![i] = NoSignal]
  /\ wg' = wg - 1
  /\ UNCHANGED <<ch, chState, closerPc>>
  /\ UNCHANGED <<cells, runVars, envVars, histVars, sigVars, panicked>>

\* case <-t2.C:
SelectTick(i) ==
  /\ pc[i] = "select"
  /\ t2c[i]
  /\ t2c' = [t2c EXCEPT ![i] = FALSE]
  /\ pc' = [pc EXCEPT ![i] = "do"]
  /\ UNCHANGED <<t1, t2, sigc>>
  /\ UNCHANGED <<cells, runVars, schedVars, envVars, histVars, sigVars, panicked>>

\* t2.Reset(d): the new period; a tick already waiting in t2.C stays there
\* (Go < 1.23) or is discarded (Go >= 1.23).
TickerResetKeepPeriod(i) ==
  /\ t2' = t2
  /\ t2c' = t2c

TickerReset(i) ==
  /\ t2' = [t2 EXCEPT ![i] = "real"]
  /\ \E keep \in BOOLEAN : t2c' = [t2c EXCEPT ![i] = @ /\ keep]

\* case <-t1.C: t2.Reset(d)
SelectTimer(i) ==
  /\ pc[i] = "select"
  /\ t1[i] = "fired"
  /\ t1' = [t1 EXCEPT ![i] = "spent"]
  /\ TickerReset(i)
  /\ pc' = [pc EXCEPT ![i] = "do"]
  /\ UNCHANGED <<sigc>>
  /\ UNCHANGED <<cells, runVars, schedVars, envVars, histVars, sigVars, panicked>>

\* case sig := <-sigc: if sig != broadcast { break }
SelectSignalAlwaysWait(i) ==
  /\ pc[i] = "select"
  /\ sigc[i] # NoSignal
  /\ sigc' = [sigc EXCEPT ![i] = NoSignal]
  /\ pc' = [pc EXCEPT ![i] = "bwait"]
  /\ UNCHANGED <<t1, t2, t2c>>
  /\ UNCHANGED <<cells, runVars, schedVars, envVars, histVars, sigVars, panicked>>

SelectSignalDropBroadcast(i) ==
  /\ pc[i] = "select"
  /\ sigc[i] # NoSignal
  /\ sigc' = [sigc EXCEPT ![i] = NoSignal]
  /\ pc' = [pc EXCEPT ![i] = IF sigc[i] # broadcast THEN "do" ELSE "select"]
  /\ UNCHANGED <<t1, t2, t2c>>
  /\ UNCHANGED <<cells, runVars, schedVars, envVars, histVars, sigVars, panicked>>

SelectSignal(i) ==
  /\ pc[i] = "select"
  /\ sigc[i] # NoSignal
  /\ sigc' = [sigc EXCEPT ![i] = NoSignal]
  /\ pc' = [pc EXCEPT ![i] = IF sigc[i] # broadcast THEN "do" ELSE "bwait"]
  /\ UNCHANGED <<t1, t2, t2c>>
  /\ UNCHANGED <<cells, runVars, schedVars, envVars, histVars, sigVars, panicked>>

\* the broadcast branch: s.wait(i); time.Sleep(j); t2.Reset(d)
UpdateWaitNoPlaceholder(i) ==
  /\ pc[i] = "bwait"
  /\ TickerReset(i)
  /\ pc' = [pc EXCEPT ![i] = "do"]
  /\ UNCHANGED <<t1, sigc>>
  /\ UNCHANGED <<cells, runVars, schedVars, envVars, histVars, sigVars, panicked>>

UpdateWait(i) ==
  /\ pc[i] = "bwait"
  /\ Send(i, WaitResult(i), "ph")
  /\ TickerReset(i)
  /\ pc' = [pc EXCEPT ![i] = "do"]
  /\ UNCHANGED <<t1, sigc>>
  /\ UNCHANGED <<cells, runVars, wg, chState, closerPc, envVars>>
  /\ UNCHANGED <<applied, lastApplied, sigVars>>

\* do: out, err := m.FullText(); s.out <- result{idx, out, err}
doReturnOnErr(i) ==
  /\ pc[i] = "do"
  /\ \E r \in FullText(cells[i]) :
       /\ Send(i, DoResult(i, r), "real")
       /\ pc' = [pc EXCEPT ![i] = IF r.err THEN "done" ELSE "select"]
       /\ wg' = IF r.err THEN wg - 1 ELSE wg
  /\ UNCHANGED <<t1, t2, t2c, sigc>>
  /\ UNCHANGED <<cells, runVars, chState, closerPc, envVars>>
  /\ UNCHANGED <<applied, lastApplied, sigVars>>

do(i) ==
  /\ pc[i] = "do"
  /\ \E r \in FullText(cells[i]) : Send(i, DoResult(i, r), "real")
  /\ pc' = [pc EXCEPT ![i] = "select"]
  /\ UNCHANGED <<t1, t2, t2c, sigc>>
  /\ UNCHANGED <<cells, runVars, wg, chState, closerPc, envVars>>
  /\ UNCHANGED <<applied, lastApplied, sigVars>>

\* -------------------------------------------------------- the environment

\* cancel()
Cancel ==
  /\ ~cancelled
  /\ cancelled' = TRUE
  /\ UNCHANGED <<ticks, nsig>>
  /\ UNCHANGED <<cells, runVars, schedVars, workerVars, histVars, sigVars, panicked>>

\* the runtime delivers t1 after j
TimerFire(i) ==
  /\ t1[i] = "armed"
  /\ t1' = [t1 EXCEPT ![i] = "fired"]
  /\ UNCHANGED <<pc, t2, t2c, sigc>>
  /\ UNCHANGED <<cells, runVars, schedVars, envVars, histVars, sigVars, panicked>>

\* the runtime delivers a tick of t2: not before j + 1 while the period is the
\* initial one, so not before t1 was delivered
TickerFire(i) ==
  /\ t2[i] # "off"
  /\ t2[i] = "init" => t1[i] # "armed"
  /\ ~t2c[i]
  /\ ticks + nsig < MaxEvents
  /\ t2c' = [t2c EXCEPT ![i] = TRUE]
  /\ ticks' = ticks + 1
  /\ UNCHANGED <<pc, t1, t2, sigc>>
  /\ UNCHANGED <<cancelled, nsig>>
  /\ UNCHANGED <<cells, runVars, schedVars, histVars, sigVars, panicked>>

\* the goroutine of worker i has been started and has not returned
Running(i) == pc[i] \notin {None, "done"}

\* signal.Notify(sigc, broadcast, syscall.Signal(id)) is in force
Registered(i) == t2[i] # "off"

Wants(i, sig) == Registered(i) /\ (sig = broadcast \/ sig = SigId(i))

Signals == {broadcast} \cup {SigId(i) : i \in Idx}

\* the process receives sig: a non-blocking send to every registered channel
Signal(sig) ==
  /\ ticks + nsig < MaxEvents
  /\ \E i \in Idx : Wants(i, sig)
  /\ sigc' = [i \in Idx |->
               IF Wants(i, sig) /\ sigc[i] = NoSignal THEN sig ELSE sigc[i]]
  /\ nsig' = nsig + 1
  /\ bc' = IF sig = broadcast /\ ~cancelled
           THEN [i \in Idx |-> IF Running(i) THEN "owed" ELSE bc[i]]
           ELSE bc
  /\ UNCHANGED <<pc, t1, t2, t2c>>
  /\ UNCHANGED <<cancelled, ticks>>
  /\ UNCHANGED <<sent, applied, lastApplied, chSeq>>
  /\ UNCHANGED <<cells, runVars, schedVars, sigVars, panicked>>

\* ------------------------------------------------------------------ Next

Worker(i) ==
  \/ UpdateEntry(i)
  \/ SelectDone(i)
  \/ SelectTick(i)
  \/ SelectTimer(i)
  \/ SelectSignal(i)
  \/ UpdateWait(i)
  \/ do(i)

RunStep ==
  \/ RunHeader
  \/ bootstrap
  \/ RunSpawn
  \/ RunMakeBlocks
  \/ RunLoop
  \/ RunReturn

Env ==
  \/ Cancel
  \/ \E i \in Idx : TimerFire(i)
  \/ \E i \in Idx : TickerFire(i)
  \/ \E sig \in Signals : Signal(sig)

Next ==
  /\ panicked = None
  /\ \/ RunStep
     \/ Closer
     \/ \E i \in Idx : Worker(i)
     \/ Env

Spec == Init /\ [][Next]_vars

\* Scheduling: every goroutine that can take a step eventually takes one.
\* Timers, signals and cancellation are the environment's and carry no
\* fairness.
W(i) == i \in Idx /\ Worker(i)

FairSpec ==
  /\ Spec
  /\ WF_vars(RunStep)
  /\ WF_vars(Closer)
  /\ \A i \in 0 .. MaxCells - 1 : WF_vars(W(i))

\* The runtime delivers an armed timer: with that, a worker waiting for its
\* jitter timer alone eventually gets it.
T(i) == i \in Idx /\ TimerFire(i)

TimedFairSpec ==
  /\ FairSpec
  /\ \A i \in 0 .. MaxCells - 1 : WF_vars(T(i))

\* ------------------------------------------------- the signal id, alone

SigInit ==
  /\ cells = <<>>
  /\ InitRest
  /\ sigIdx \in 0 .. MaxIndex
  /\ sigGot = -1

\* update(ctx, i, ...) computes the id it registers
SigRegister ==
  /\ sigGot = -1
  /\ sigGot' = SigId(sigIdx)
  /\ UNCHANGED <<cells, runVars, schedVars, workerVars, envVars, histVars, sigIdx, panicked>>

SigNext == SigRegister

SigSpec == SigInit /\ [][SigNext]_vars

\* ------------------------------------------------------------ the claims

AllDone == \A i \in Idx : pc[i] = "done"

InChan(i) == Cardinality({k \in 1 .. Len(ch) : ch[k].idx = i})

FailingSibling(j) == \E i \in Idx : i # j /\ cells[i] = "fail"

\* C1: the Header is written exactly once, by the first write of the run: no
\* body line precedes it, none is followed by a second Header, and any run that
\* got past its Header step made exactly one Header write.
C1_HeaderOnceFirst ==
  /\ out.hdrs <= 1
  /\ ~out.early
  /\ ~out.late
  /\ out.lens # {} => out.hdrs = 1
  /\ runPc # "header" => out.hdrs + (IF out.hdrErr THEN 1 ELSE 0) = 1

C1_Witness == n = 2 /\ out.hdrs = 1 /\ out.lens # {} /\ runRet = "nil"

\* C2: every body line written has exactly n entries; the Block sequence has
\* n entries from its creation on; every Result in the channel carries an
\* index in [0, n), so that applying one never indexes out of range.
C2_BodyLength ==
  /\ out.lens \subseteq {n}
  /\ line.st # None => DOMAIN line.v = 0 .. n - 1
  /\ (runPc = "recv" \/ runRet = "nil") => DOMAIN blocks = 0 .. n - 1
  /\ \A k \in 1 .. Len(ch) : ch[k].idx \in 0 .. n - 1
  /\ panicked # "index out of range"

C2_Witness == n = 2 /\ out.lens = {2} /\ applied[0] >= 1 /\ applied[1] >= 1

\* C3: once a Result for index i has been consumed, blocks[i] is the text of
\* the last Result consumed for i, at every later point and when Run returns.
C3_LastResultWins ==
  \A i \in Idx : applied[i] > 0 => blocks[i] = lastApplied[i]

C3_Witness ==
  \E i \in Idx :
    /\ cells[i] = "fail"
    /\ applied[i] >= 3
    /\ blocks[i] = ""
    /\ cancelled
    /\ runRet = "nil"

\* C4: in a run whose Header was written, once cancellation has fired every
\* worker terminates, the channel is closed, the consume loop ends and Run
\* returns nil.
C4_CancelTerminates ==
  (cancelled /\ out.hdrs = 1)
    ~> (AllDone /\ spawned = n /\ chState = "closed" /\ ch = <<>> /\ runRet = "nil")

C4_Witness ==
  /\ n = 2
  /\ cancelled
  /\ AllDone
  /\ chState = "closed"
  /\ runRet = "nil"
  /\ \E i \in Idx : sent[i] >= 2

\* C5: Run returns an error only if the Header write failed; whatever module
\* errors and body write errors occurred, a Run that ended after a good Header
\* returned nil.
C5_OnlyHeaderErrorReturned ==
  /\ runRet = "err" => out.hdrErr
  /\ (runPc = "done" /\ ~out.hdrErr) => runRet = "nil"
  /\ (logged.mod \/ logged.body) => runRet # "err"

C5_Witness == runRet = "nil" /\ logged.mod /\ logged.body

\* C6: if the Header write fails, Run has returned that error and nothing else
\* has happened: no channel, no worker, no Result, no body line.
C6_HeaderFailureStartsNothing ==
  out.hdrErr =>
    /\ runRet = "err"
    /\ runPc = "done"
    /\ spawned = 0
    /\ chState = None
    /\ closerPc = None
    /\ \A i \in Idx : pc[i] = None /\ sent[i] = 0
    /\ ch = <<>>
    /\ out.lens = {}
    /\ line = [v |-> <<>>, st |-> None]

C6_Witness == n = 2 /\ out.hdrErr /\ runRet = "err"

\* C7: with a sibling cell whose module fails on every invocation, whenever
\* Results of worker j are in the channel a later state has none of them left:
\* every one has been consumed and applied in the order sent, and the last is
\* in blocks[j] of the body line handed to the output (whether that write
\* succeeds is the output's matter).
C7_FailingSiblingBlocksNothing ==
  \A j \in 0 .. MaxCells - 1 :
    (j \in Idx /\ FailingSibling(j) /\ InChan(j) > 0)
      ~> /\ j \in Idx
         /\ InChan(j) = 0
         /\ applied[j] = sent[j]
         /\ line.st # None
         /\ line.v[j] = lastApplied[j]

C7_Witness ==
  \E i \in Idx : \E j \in Idx :
    /\ i # j
    /\ cells[i] = "fail"
    /\ cells[j] = "ok"
    /\ logged.mod
    /\ applied[j] >= 2
    /\ line.st # None
    /\ line.v[j] = "hello"

\* C8: no Result is lost: a terminated worker's Results are all applied or
\* still buffered, and when Run returns nil the buffer is empty and every
\* index has as many Results applied as its worker sent.
C8_NoResultLost ==
  /\ \A i \in Idx : sent[i] = applied[i] + InChan(i)
  /\ runRet = "nil" => ch = <<>> /\ \A i \in Idx : applied[i] = sent[i]

C8_Witness ==
  /\ n = 2
  /\ runRet = "nil"
  /\ \A i \in Idx : sent[i] >= 2 /\ applied[i] = sent[i]

\* C9: the channel is closed only when every worker has terminated, by the
\* closer alone, and no send or close ever meets a closed channel.
C9_CloseAfterWorkers ==
  /\ chState = "closed" => (AllDone /\ spawned = n /\ wg = 0 /\ closerPc = "done")
  /\ closerPc = "done" => chState = "closed"
  /\ panicked \notin {"send on closed channel", "close of closed channel"}

C9_Witness == n = 2 /\ chState = "closed" /\ \E i \in Idx : sent[i] >= 3

\* C10: the id worker i registers is MIN + ((i+1) mod (MAX-MIN)), which lies
\* in [MIN, MAX).
C10_SignalIdWraps ==
  sigGot # -1 =>
    /\ sigGot = sigRtMin + ((sigIdx + 1) % (sigRtMax - sigRtMin))
    /\ sigRtMin <= sigGot
    /\ sigGot < sigRtMax

\* C11: worker i registers SIGRTMIN + i, in declaration order (worker 0 gets
\* SIGRTMIN); the worker after the one that got SIGRTMAX gets SIGRTMIN again,
\* so that no id exceeds SIGRTMAX.
C11_SignalInDeclarationOrder ==
  sigGot # -1 =>
    /\ sigGot = sigRtMin + (sigIdx % (sigRtMax - sigRtMin + 1))
    /\ sigGot <= sigRtMax

\* The Results a module of worker i may produce, as do sends them.
RealResults(i) == {DoResult(i, r) : r \in FullText(cells[i])}

\* C14: a worker that takes an individual signal from its channel goes straight
\* to the module invocation: no Result sent, no timer or ticker touched by that
\* step; the invocation then sends exactly one Result, for i, with the module's
\* output, and the worker is back at its wait.  A signal is stored only in the
\* channel of a worker registered for it.
C14_IndividualReload ==
  [][\A i \in Idx :
       /\ (/\ pc[i] = "select"
           /\ sigc[i] \notin {NoSignal, broadcast}
           /\ sigc'[i] = NoSignal
           /\ pc'[i] # "done")
            => /\ pc'[i] = "do"
               /\ ch' = ch /\ sent' = sent
               /\ t1' = t1 /\ t2' = t2 /\ t2c' = t2c
       /\ (pc[i] = "do" /\ pc'[i] # "do")
            => /\ pc'[i] = "select"
               /\ sent' = [sent EXCEPT ![i] = @ + 1]
               /\ \E r \in RealResults(i) : ch' = Append(ch, r)
               /\ t2' = t2
       /\ (sigc'[i] # sigc[i] /\ sigc'[i] \notin {NoSignal, broadcast})
            => /\ sigc'[i] = SigId(i)
               /\ ch' = ch /\ sent' = sent
    ]_vars

C14_Witness ==
  \E i \in Idx :
    /\ n = 2
    /\ ~cancelled
    /\ nsig = 1
    /\ \A j \in Idx : sigc[j] = NoSignal /\ pc[j] = "select"
    /\ \A j \in Idx : j # i => sent[j] = 1
    /\ t1[i] = "armed"
    /\ sent[i] = 2
    /\ applied[i] = 2
    /\ lastApplied[i] = "hello"

C17_TimerBeforeTicker ==
  [][\A i \in Idx :
       (/\ pc[i] = "select" /\ pc'[i] = "do"
        /\ t2c[i] /\ ~t2c'[i]
        /\ t1'[i] = t1[i])
         => t1[i] = "spent"
    ]_vars

\* C18 (as claimed): at a wait where cancellation is observable the worker
\* handles no event: its only step there is to exit.
C18_NoEventAfterCancel ==
  [][\A i \in Idx :
       (cancelled /\ pc[i] = "select") => pc'[i] \in {"select", "done"}
    ]_vars

\* C18 (amended): at a wait where cancellation is observable the worker exits,
\* unless a tick, the jitter timer or a signal is pending there too, which the
\* select may take first; a worker that has exited stays so and sends nothing.
C18_ExitUnlessEventPending ==
  [][\A i \in Idx :
       /\ (cancelled /\ pc[i] = "select" /\ pc'[i] # "select")
            => \/ pc'[i] = "done"
               \/ t2c[i]
               \/ t1[i] = "fired"
               \/ sigc[i] # NoSignal
       /\ pc[i] = "done" => (pc'[i] = "done" /\ sent'[i] = sent[i])
    ]_vars

C18_Witness ==
  \E i \in Idx :
    /\ cancelled
    /\ pc[i] = "done"
    /\ sent[i] >= 3
    /\ ticks = 1

\* C19 (as claimed): a worker about to make its first send finds fewer than n
\* Results in the channel.
C19_FirstSendNeverBlocks ==
  \A i \in Idx : pc[i] = "entry" => Len(ch) < n

\* C19 (amended): while no worker has sent a second Result, a worker about to
\* make its first send finds room in the channel.
C19_FirstBurstFits ==
  \A i \in Idx :
    (pc[i] = "entry" /\ \A j \in Idx : sent[j] <= 1)
      => (Len(ch) < n /\ CanSend /\ chState = "open")

C19_Witness ==
  /\ n = 2
  /\ runPc = "spawn"
  /\ pc[1] = "entry"
  /\ sent[0] = 1
  /\ Len(ch) = 1

\* C20: after a failed body write the error is in the log, the Block sequence
\* is the one that write was given (the update stays applied), Run has not
\* returned an error and is consuming still (or has ended normally, the channel
\* closed and drained), and no worker has stopped but by cancellation.
C20_BodyWriteFailureIgnored ==
  /\ line.st = "err" => (logged.body /\ line.v = blocks)
  /\ logged.body =>
       /\ runRet # "err"
       /\ panicked = None
       /\ runPc = "recv" \/ (runRet = "nil" /\ ch = <<>> /\ chState = "closed")
       /\ \A i \in Idx : blocks[i] = (IF applied[i] = 0 THEN "" ELSE lastApplied[i])
       /\ \A i \in Idx : pc[i] = "done" => cancelled

C20_Witness ==
  /\ n = 2
  /\ ~cancelled
  /\ logged.body
  /\ line.st = "ok"
  /\ \A i \in Idx : applied[i] >= 2 /\ pc[i] = "select"

\* C12: every worker that was running when a broadcast was delivered, with no
\* cancellation fired, later sends a module Result (or cancellation fires).
C12_BroadcastReloadsAll ==
  \A i \in 0 .. MaxCells - 1 :
    (i \in Idx /\ bc[i] = "owed" /\ ~cancelled)
      ~> (cancelled \/ (i \in Idx /\ bc[i] \in {"none", "real"}))

C12_Witness ==
  /\ n = 2
  /\ ~cancelled
  /\ nsig = 1
  /\ \A i \in Idx : bc[i] = "ph" /\ pc[i] = "do" /\ sent[i] >= 3

\* C13 (as claimed): the first Result a worker sends after a broadcast was
\* delivered is never a module Result.
C13_PlaceholderFirstAfterBroadcast ==
  \A i \in Idx : bc[i] # "real"

\* C13 (amended): a worker that takes a broadcast from its signal channel sends
\* nothing in that step, then sends the placeholder as its next Result, and
\* only then the module Result.
C13_PlaceholderFirstAfterHandling ==
  [][\A i \in Idx :
       /\ (/\ pc[i] = "select"
           /\ sigc[i] = broadcast
           /\ sigc'[i] = NoSignal
           /\ pc'[i] # "done")
            => (pc'[i] = "bwait" /\ ch' = ch /\ sent' = sent)
       /\ (pc[i] = "bwait" /\ pc'[i] # "bwait")
            => /\ pc'[i] = "do"
               /\ sent' = [sent EXCEPT ![i] = @ + 1]
               /\ ch' = Append(ch, WaitResult(i))
       /\ (pc[i] = "do" /\ sent'[i] # sent[i])
            => ch'[Len(ch')] \in RealResults(i)
    ]_vars

C13_Witness ==
  \E i \in Idx :
    /\ bc[i] = "ph"
    /\ pc[i] = "do"
    /\ sent[i] >= 3
    /\ ch # <<>>
    /\ ch[Len(ch)] = WaitResult(i)

\* C15: the Results of one worker are in the channel in the order sent and the
\* next one the writer receives for an index is the one that follows the last
\* it applied for that index.
C15_PerIndexOrder ==
  /\ Len(chSeq) = Len(ch)
  /\ \A k \in 1 .. Len(ch) :
       chSeq[k] = applied[ch[k].idx]
                    + Cardinality({j \in 1 .. k : ch[j].idx = ch[k].idx})

C15_Witness ==
  /\ n = 2
  /\ Len(ch) = 2
  /\ ch[1].idx = ch[2].idx
  /\ \A i \in Idx : applied[i] >= 1

\* C21: a worker has terminated only if cancellation has fired, and it
\* terminates from its wait alone; with at least one cell, the completion
\* counter is below n, or the channel closed, only if cancellation has fired.
C21_ExitOnlyByCancel ==
  /\ [](\A i \in Idx : pc[i] = "done" => cancelled)
  /\ []((n >= 1 /\ (chState = "closed" \/ wg < n) /\ chState # None) => cancelled)
  /\ [][\A i \in Idx :
          (pc[i] # "done" /\ pc'[i] = "done") => (pc[i] = "select" /\ cancelled)
       ]_vars

C21_Witness ==
  \E i \in Idx :
    /\ cells[i] = "fail"
    /\ cancelled
    /\ pc[i] = "done"
    /\ sent[i] >= 3
    /\ logged.mod
    /\ chState = "closed"

\* C22: a step that changes the Block sequence is a step of Run: the creation
\* of the sequence, or the application of the Result at the head of the
\* channel, which changes no entry but that of the Result's index; no worker
\* moves in such a step.
C22_OnlyOwnBlockChanges ==
  [][blocks' # blocks =>
       /\ pc' = pc /\ sent' = sent
       /\ \/ runPc = "spawn" /\ blocks = <<>>
          \/ /\ runPc = "recv"
             /\ ch # <<>>
             /\ DOMAIN blocks' = DOMAIN blocks
             /\ \A k \in DOMAIN blocks :
                  k # Head(ch).idx => blocks'[k] = blocks[k]
             /\ blocks'[Head(ch).idx] = Head(ch).out
    ]_vars

C22_Witness ==
  /\ n = 2
  /\ blocks = (0 :> "hello" @@ 1 :> placeholder)
  /\ applied[0] = 2
  /\ applied[1] = 1
  /\ line.v = blocks

\* C23: with zero cells the completion counter is zero from bootstrap on, no
\* body line is ever written, and a Run whose Header was written returns nil
\* with the channel closed, whether or not cancellation fires.
C23_ZeroCellsReturns ==
  /\ [](n = 0 => (wg = 0 /\ ch = <<>> /\ out.lens = {} /\ line.st = None))
  /\ [](n = 0 /\ runRet = "nil" => (out.hdrs = 1 /\ chState = "closed"))
  /\ (n = 0 /\ out.hdrs = 1) ~> (n = 0 /\ runRet = "nil")

C23_Witness ==
  /\ n = 0
  /\ ~cancelled
  /\ out.hdrs = 1
  /\ out.lens = {}
  /\ chState = "closed"
  /\ runRet = "nil"

\* C24: a worker leaves its entry by sending the placeholder for its index,
\* whether or not cancellation has fired, with no timer armed before; no worker
\* waits, invokes its module or terminates with nothing sent; and a started
\* worker does get to send.
C24_PlaceholderOnEntry ==
  /\ [](\A i \in Idx : pc[i] \in {"select", "bwait", "do", "done"} => sent[i] >= 1)
  /\ [][\A i \in Idx :
          /\ (pc[i] = "entry" /\ pc'[i] # "entry")
               => /\ pc'[i] = "select"
                  /\ t1[i] = "off" /\ t2[i] = "off"
                  /\ sent[i] = 0 /\ sent'[i] = 1
                  /\ ch' = Append(ch, WaitResult(i))
          /\ sent'[i] # sent[i] => (sent[i] = 0 <=> pc[i] = "entry")
       ]_vars
  /\ \A i \in 0 .. MaxCells - 1 :
       (i \in Idx /\ pc[i] = "entry") ~> (i \in Idx /\ sent[i] >= 1)

C24_Witness ==
  \E i \in Idx :
    /\ cancelled
    /\ pc[i] = "done"
    /\ sent[i] = 1
    /\ applied[i] = 1
    /\ lastApplied[i] = placeholder
    /\ runRet = "nil"

====
